---- MODULE Spec2Model ----
(***************************************************************************)
(* Session / mutation core of the investApp frontend.                      *)
(*                                                                         *)
(*   lib/api.ts        axios instance `api`, its request and response      *)
(*                     interceptors, and the four `authApi` calls          *)
(*   hooks/use-auth.ts `useAuth`: four useMutation instances, the `clients`*)
(*                     state, `logout` and `isAuthenticated`               *)
(*   app/.../page.tsx  the pages that invoke the mutations                 *)
(*                                                                         *)
(* One `useAuth` instance is modelled, kept mounted.  A useMutation        *)
(* instance is an observer that follows the Mutation object of its most    *)
(* recent `mutate` call; every `mutate` call builds a new Mutation object  *)
(* and the options-level `onSuccess` belongs to that object.  A step of    *)
(* the model is one browser task: an event handler, or the arrival of one  *)
(* HTTP response together with the promise continuations it triggers.      *)
(***************************************************************************)
EXTENDS Integers, Sequences, FiniteSets, TLC

\* Total number of `mutate` calls issued in a run of the whole hook.
MaxCalls == 2

\* Total number of ListClients calls issued in a run of the ListClients
\* instance on its own.
MaxFetches == 3

\* Total number of calls issued in a run of the Login and ListClients
\* instances under fair delivery of the responses.
MaxInFlight == 2

----------------------------------------------------------------------------
\* Values

\* localStorage.getItem of a key that is not stored; `undefined` of JavaScript.
Null == "<null>"
Undefined == "<undefined>"

\* access_token values a login response can carry (LoginResponse.access_token: string).
TokenStrings == {"", "tok123"}

\* `detail` strings of a failure body (ApiError.detail: string).
Details == {"Invalid credentials"}

\* HTTP statuses of a failed call; 0 stands for "no response received".
FailureStatuses == {0, 401, 422, 500}

\* The four useMutation instances of useAuth.
Keys == {"login", "register", "registerClient", "clients"}

\* Client[] payloads of GET /clients.
Payloads ==
    { << >>,
      << [id |-> 1, is_active |-> TRUE] >>,
      << [id |-> 2, is_active |-> FALSE], [id |-> 3, is_active |-> TRUE] >> }

\* Environments the module runs in.  "ok": a browser with working storage.
\* "quota": a browser where localStorage.setItem throws QuotaExceededError.
\* "denied": a browser where touching window.localStorage throws
\* SecurityError.  "absent": no window, the server render of the page.
StorageModes == {"ok", "quota", "denied", "absent"}

\* JavaScript truthiness of a string-or-null value: `if (token)`, `!!value`.
Truthy(v) == v # Null /\ v # Undefined /\ v # ""

VARIABLES
    auth_token,   \* localStorage['auth_token'], Null when the key is not stored
    calls,        \* the Mutation objects built so far, in order of their mutate call
    cur,          \* per useMutation instance: index of the Mutation it observes, 0 if none
    clients,      \* useState<Client[]> of useAuth
    guard,        \* what ProtectedRoute produced for the page on screen, "none" before it ran
    view,         \* per instance: its status as of the last render (what the page shows)
    logoutAt,     \* history: how many calls had been issued when logout last ran
    storage       \* what the environment makes of localStorage, fixed for a run

vars == <<auth_token, calls, cur, clients, guard, view, logoutAt, storage>>

----------------------------------------------------------------------------
\* lib/api.ts

\* api.interceptors.request.use: the Authorization header put on the config.
RequestInterceptor(token) ==
    IF Truthy(token) THEN <<"Bearer", token>> ELSE <<>>

\* The error axios rejects with: the body is under response.data, and the
\* error object itself has no `detail` property.
AxiosError(status, detail) ==
    [name |-> "AxiosError", detail |-> Undefined,
     response |-> [status |-> status, data |-> [detail |-> detail]]]

NoError == [name |-> Undefined, detail |-> Undefined,
            response |-> [status |-> -1, data |-> [detail |-> Undefined]]]

\* The exception a failing localStorage access throws: no response, no detail.
DOMException(name) ==
    [name |-> name, detail |-> Undefined,
     response |-> [status |-> 0, data |-> [detail |-> Undefined]]]

NoData == [access_token |-> Undefined, list |-> << >>]

\* The rejected branch with the storage left as it is on a 401.
ResponseInterceptorRejected_NoClear(error, token) ==
    IF error.response.status = 401
    THEN [token |-> token, nav |-> << [to |-> "/login", token |-> token] >>,
          rejected |-> error]
    ELSE [token |-> token, nav |-> << >>, rejected |-> error]

\* The rejected branch without the navigation on a 401.
ResponseInterceptorRejected_NoNav(error, token) ==
    IF error.response.status = 401
    THEN [token |-> Null, nav |-> << >>, rejected |-> error]
    ELSE [token |-> token, nav |-> << >>, rejected |-> error]

\* The rejected branch taking every HTTP error status for an auth failure.
ResponseInterceptorRejected_AnyStatus(error, token) ==
    IF error.response.status >= 400
    THEN [token |-> Null, nav |-> << [to |-> "/login", token |-> Null] >>,
          rejected |-> error]
    ELSE [token |-> token, nav |-> << >>, rejected |-> error]

\* api.interceptors.response.use, rejected branch: the storage value it
\* leaves, the navigations it issues (target, and the storage value at that
\* time), and the error it re-raises.
ResponseInterceptorRejected(error, token) ==
    IF error.response.status = 401
    THEN [token |-> Null, nav |-> << [to |-> "/login", token |-> Null] >>,
          rejected |-> error]
    ELSE [token |-> token, nav |-> << >>, rejected |-> error]

----------------------------------------------------------------------------
\* hooks/use-auth.ts

\* isAuthenticated(): what the call returns, and whether it throws instead.
\* The window test covers the server; the read itself is unprotected.
isAuthenticatedCall ==
    CASE storage = "absent" -> [returns |-> FALSE, throws |-> FALSE]
      [] storage = "denied" -> [returns |-> FALSE, throws |-> TRUE]
      [] OTHER -> [returns |-> Truthy(auth_token), throws |-> FALSE]

isAuthenticated == isAuthenticatedCall.returns

\* State of the useMutation instance k: that of the Mutation it observes.
Status(k) == IF cur[k] = 0 THEN "idle" ELSE calls[cur[k]].status
isPending(k) == Status(k) = "pending"
Error(k) == IF cur[k] = 0 THEN NoError ELSE calls[cur[k]].error
Data(k) == IF cur[k] = 0 THEN NoData ELSE calls[cur[k]].data

NewCall(k, headers) ==
    [key |-> k, Authorization |-> headers, status |-> "pending",
     data |-> NoData, error |-> NoError, raised |-> NoError,
     nav |-> << >>, hookStatus |-> "none", hooks |-> 0]

\* useMutation(...).mutate: build a Mutation, observe it, run mutationFn.
mutate(k) ==
    /\ calls' = Append(calls, NewCall(k, RequestInterceptor(auth_token)))
    /\ cur' = [cur EXCEPT ![k] = Len(calls) + 1]
    /\ UNCHANGED <<auth_token, clients, guard, view, logoutAt, storage>>

\* onSuccess with the ListClients hook adding the payload to the state.
onSuccess_Merge(k, data, token, list) ==
    CASE k = "login" ->
           [token |-> data.access_token, clients |-> list,
            nav |-> << [to |-> "/clients", token |-> data.access_token] >>]
      [] k = "register" ->
           [token |-> token, clients |-> list,
            nav |-> << [to |-> "/login?message=Registration successful", token |-> token] >>]
      [] k = "registerClient" ->
           [token |-> token, clients |-> list,
            nav |-> << [to |-> "/clients?message=Client registration successful", token |-> token] >>]
      [] k = "clients" ->
           [token |-> token, clients |-> list \o data.list, nav |-> << >>]

\* onSuccess with the RegisterClient hook dropping the fetched list.
onSuccess_Reset(k, data, token, list) ==
    CASE k = "login" ->
           [token |-> data.access_token, clients |-> list,
            nav |-> << [to |-> "/clients", token |-> data.access_token] >>]
      [] k = "register" ->
           [token |-> token, clients |-> list,
            nav |-> << [to |-> "/login?message=Registration successful", token |-> token] >>]
      [] k = "registerClient" ->
           [token |-> token, clients |-> << >>,
            nav |-> << [to |-> "/clients?message=Client registration successful", token |-> token] >>]
      [] k = "clients" ->
           [token |-> token, clients |-> data.list, nav |-> << >>]

\* The onSuccess option of each instance: the values it leaves behind.
\* nav entries record the target and the storage value at the time of the push.
onSuccess(k, data, token, list) ==
    CASE k = "login" ->
           [token |-> data.access_token, clients |-> list,
            nav |-> << [to |-> "/clients", token |-> data.access_token] >>]
      [] k = "register" ->
           [token |-> token, clients |-> list,
            nav |-> << [to |-> "/login?message=Registration successful", token |-> token] >>]
      [] k = "registerClient" ->
           [token |-> token, clients |-> list,
            nav |-> << [to |-> "/clients?message=Client registration successful", token |-> token] >>]
      [] k = "clients" ->
           [token |-> token, clients |-> data.list, nav |-> << >>]

Bodies(k) ==
    CASE k = "login" -> {[access_token |-> t, list |-> << >>] : t \in TokenStrings}
      [] k = "clients" -> {[access_token |-> Undefined, list |-> p] : p \in Payloads}
      [] OTHER -> {NoData}

\* localStorage.setItem('auth_token', ...) throws instead of storing.
setItemThrows == storage = "quota"

\* A navigation leaves the page on screen; the target page is yet to render.
Navigate(nav) == IF nav = << >> THEN guard ELSE "none"

\* A 2xx response that is also taken for a call that has settled.
ResponseFulfilled_Settled(i, data) ==
    /\ LET k == calls[i].key
           out == onSuccess(k, data, auth_token, clients)
       IN IF k = "login" /\ setItemThrows
          THEN /\ calls' = [calls EXCEPT ![i] =
                               [@ EXCEPT !.status = "error",
                                         !.error = DOMException("QuotaExceededError"),
                                         !.hookStatus = calls[i].status,
                                         !.hooks = @ + 1]]
               /\ UNCHANGED <<auth_token, clients, guard>>
          ELSE /\ auth_token' = out.token
               /\ clients' = out.clients
               /\ guard' = Navigate(out.nav)
               /\ calls' = [calls EXCEPT ![i] =
                               [@ EXCEPT !.status = "success", !.data = data,
                                         !.nav = out.nav, !.hookStatus = calls[i].status,
                                         !.hooks = @ + 1]]
    /\ UNCHANGED <<cur, view, logoutAt, storage>>

\* A 2xx response to call i: the response interceptor passes it on, authApi
\* returns response.data, the Mutation runs onSuccess and then commits.  A
\* hook that throws (loginMutation's setItem, before its router.push) is
\* caught by the Mutation, which commits the exception as its error.
ResponseFulfilled(i, data) ==
    /\ calls[i].status = "pending"
    /\ LET k == calls[i].key
           out == onSuccess(k, data, auth_token, clients)
       IN IF k = "login" /\ setItemThrows
          THEN /\ calls' = [calls EXCEPT ![i] =
                               [@ EXCEPT !.status = "error",
                                         !.error = DOMException("QuotaExceededError"),
                                         !.hookStatus = calls[i].status,
                                         !.hooks = @ + 1]]
               /\ UNCHANGED <<auth_token, clients, guard>>
          ELSE /\ auth_token' = out.token
               /\ clients' = out.clients
               /\ guard' = Navigate(out.nav)
               /\ calls' = [calls EXCEPT ![i] =
                               [@ EXCEPT !.status = "success", !.data = data,
                                         !.nav = out.nav, !.hookStatus = calls[i].status,
                                         !.hooks = @ + 1]]
    /\ UNCHANGED <<cur, view, logoutAt, storage>>

\* A failed call whose Mutation runs the success hook as well, as a hook
\* registered for both outcomes would.
ResponseRejected_Settled(i, status, detail) ==
    /\ calls[i].status = "pending"
    /\ LET raised == AxiosError(status, detail)
           out == ResponseInterceptorRejected(raised, auth_token)
           hook == onSuccess(calls[i].key, NoData, out.token, clients)
       IN /\ auth_token' = hook.token
          /\ clients' = hook.clients
          /\ guard' = Navigate(out.nav \o hook.nav)
          /\ calls' = [calls EXCEPT ![i] =
                          [@ EXCEPT !.status = "error", !.error = out.rejected,
                                    !.raised = raised, !.nav = out.nav \o hook.nav,
                                    !.hookStatus = calls[i].status, !.hooks = @ + 1]]
    /\ UNCHANGED <<cur, view, logoutAt, storage>>

\* A failed call i: the response interceptor handles the error and re-raises
\* it, authApi rejects, the Mutation commits the error.
ResponseRejected(i, status, detail) ==
    /\ calls[i].status = "pending"
    /\ LET raised == AxiosError(status, detail)
           out == ResponseInterceptorRejected(raised, auth_token)
       IN /\ auth_token' = out.token
          /\ guard' = Navigate(out.nav)
          /\ calls' = [calls EXCEPT ![i] =
                          [@ EXCEPT !.status = "error", !.error = out.rejected,
                                    !.raised = raised, !.nav = out.nav]]
    /\ UNCHANGED <<cur, clients, view, logoutAt, storage>>

\* logout aborting the calls in flight.
logout_Abort ==
    /\ auth_token' = Null
    /\ clients' = << >>
    /\ guard' = Navigate(<< "/login" >>)
    /\ logoutAt' = Len(calls)
    /\ calls' = [i \in DOMAIN calls |->
                    IF calls[i].status = "pending"
                    THEN [calls[i] EXCEPT !.status = "aborted"] ELSE calls[i]]
    /\ UNCHANGED <<cur, view, storage>>

logout ==
    /\ auth_token' = Null
    /\ clients' = << >>
    /\ guard' = Navigate(<< "/login" >>)
    /\ logoutAt' = Len(calls)
    /\ UNCHANGED <<calls, cur, view, storage>>

----------------------------------------------------------------------------
\* Pages

\* A render pass: the submit buttons take `disabled={...IsLoading}`, and
\* ClientsContent shows the loading view or the error banner.
Render ==
    /\ view' = [k \in Keys |-> Status(k)]
    /\ view' # view
    /\ UNCHANGED <<auth_token, calls, cur, clients, guard, logoutAt, storage>>

\* LoginPage.onSubmit, RegisterPage.onSubmit, ClientRegisterPage.onSubmit:
\* reachable while the rendered button is enabled.
onSubmit(k) ==
    /\ k \in {"login", "register", "registerClient"}
    /\ view[k] # "pending"
    /\ mutate(k)

\* ClientsContent: the effect that runs once it has mounted, and the Retry
\* button, which is on screen with the error banner.
useEffect ==
    /\ cur["clients"] = 0
    /\ mutate("clients")

handleRetry ==
    /\ view["clients"] = "error"
    /\ mutate("clients")

\* inactiveCount taking the filter of activeCount.
inactiveCount_SameFilter == Len(SelectSeq(clients, LAMBDA c : c.is_active))

\* ClientsContent, the statistics cards: clients.length and the lengths of
\* the two filters over is_active.
total == Len(clients)
activeCount == Len(SelectSeq(clients, LAMBDA c : c.is_active))
inactiveCount == Len(SelectSeq(clients, LAMBDA c : ~c.is_active))

\* components/protected-route.tsx, one evaluation for a protected page
\* (ClientsPage, ClientRegisterPage) the user opened or was sent to: the
\* children are rendered, or a redirect to the login view is issued.
ProtectedRoute ==
    /\ guard' = IF isAuthenticated THEN "children" ELSE "redirect"
    /\ guard' # guard
    /\ UNCHANGED <<auth_token, calls, cur, clients, view, logoutAt, storage>>

\* Protected children are on screen.
shown == guard = "children"

----------------------------------------------------------------------------
\* First load of the application: nothing stored, nothing invoked.
Init ==
    /\ auth_token = Null
    /\ calls = << >>
    /\ cur = [k \in Keys |-> 0]
    /\ clients = << >>
    /\ guard = "none"
    /\ view = [k \in Keys |-> "idle"]
    /\ logoutAt = 0
    /\ storage = "ok"

\* An event handler of a page invokes a mutation.
Invoke ==
    \/ \E k \in Keys : onSubmit(k)
    \/ useEffect
    \/ handleRetry

\* The answer to a call in flight arrives.
Respond ==
    \/ \E i \in 1..Len(calls) : \E d \in Bodies(calls[i].key) : ResponseFulfilled(i, d)
    \/ \E i \in 1..Len(calls) : \E s \in FailureStatuses :
          \E d \in (IF s = 0 THEN {Undefined} ELSE Details) : ResponseRejected(i, s, d)

Next ==
    \/ Len(calls) < MaxCalls /\ Invoke
    \/ Respond
    \/ logout
    \/ Render
    \/ ProtectedRoute

Spec == Init /\ [][Next]_vars

\* The application loaded in any environment.  Where isAuthenticated()
\* throws, useAuth throws in render and no handler is ever attached; on the
\* server no event arrives.
InitStorage ==
    /\ auth_token = Null
    /\ calls = << >>
    /\ cur = [k \in Keys |-> 0]
    /\ clients = << >>
    /\ guard = "none"
    /\ view = [k \in Keys |-> "idle"]
    /\ logoutAt = 0
    /\ storage \in StorageModes

handlersAttached == storage \in {"ok", "quota"}

NextStorage ==
    \/ handlersAttached /\ Len(calls) < MaxCalls /\ Invoke
    \/ handlersAttached /\ Respond
    \/ handlersAttached /\ logout
    \/ handlersAttached /\ Render
    \/ handlersAttached /\ ProtectedRoute

SpecStorage == InitStorage /\ [][NextStorage]_vars

\* The ListClients instance on its own: ClientsContent fetching and
\* retrying, with the three form instances left idle.
NextListClients ==
    \/ Len(calls) < MaxFetches /\ useEffect
    \/ Len(calls) < MaxFetches /\ handleRetry
    \/ Respond
    \/ logout
    \/ Render

SpecListClients == Init /\ [][NextListClients]_vars

\* The Login and ListClients instances with every response delivered: the
\* remote side answers each call in flight, with a success or a failure.
Settle(i) ==
    /\ i \in 1..Len(calls)
    /\ \/ \E d \in Bodies(calls[i].key) : ResponseFulfilled(i, d)
       \/ \E s \in FailureStatuses :
             \E d \in (IF s = 0 THEN {Undefined} ELSE Details) : ResponseRejected(i, s, d)

NextSettle ==
    \/ Len(calls) < MaxInFlight /\ onSubmit("login")
    \/ Len(calls) < MaxInFlight /\ useEffect
    \/ Len(calls) < MaxInFlight /\ handleRetry
    \/ \E i \in 1..MaxInFlight : Settle(i)
    \/ logout
    \/ Render

SpecSettle ==
    /\ Init
    /\ [][NextSettle]_vars
    /\ \A i \in 1..MaxInFlight : WF_vars(Settle(i))

----------------------------------------------------------------------------
\* Properties

\* Call i settles in this step, with a success or with an error.
Succeeds(i) == calls[i].status = "pending" /\ calls'[i].status = "success"
Fails(i) == calls[i].status = "pending" /\ calls'[i].status = "error"
Calls == 1..Len(calls)
InFlight(k) == {i \in Calls : calls[i].key = k /\ calls[i].status = "pending"}
Terminal == {"success", "error"}

\* This step receives a 401; this step is a logout.
UnauthorizedStep == \E i \in Calls : Fails(i) /\ calls'[i].raised.response.status = 401
LogoutStep == calls' = calls /\ auth_token' = Null /\ clients' = << >> /\ guard' = "none"

\* C1: a 401 response to a call leaves isAuthenticated() false and issues
\* exactly one navigation, to the login view, for that response.
C1_Unauthorized ==
    [][\A i \in Calls :
          (Fails(i) /\ calls'[i].raised.response.status = 401)
          => /\ ~isAuthenticated'
             /\ calls'[i].nav = << [to |-> "/login", token |-> Null] >>
             /\ guard' = "none"]_vars

C1_Witness ==
    \E i \in Calls :
        /\ calls[i].Authorization # << >>
        /\ calls[i].status = "error"
        /\ calls[i].raised.response.status = 401
        /\ Len(calls[i].nav) = 1
        /\ ~isAuthenticated

\* C2: once a login has stored a token, isAuthenticated() is true, and it
\* turns false only in a step that is a logout or that receives a 401.
C2_Original ==
    [][/\ \A i \in Calls : (calls[i].key = "login" /\ Succeeds(i)) => isAuthenticated'
       /\ (isAuthenticated /\ ~isAuthenticated') => (UnauthorizedStep \/ LogoutStep)]_vars

\* C3: at most one call of a useMutation instance is in flight at any time.
C3_Original == \A k \in Keys : Cardinality(InFlight(k)) <= 1

\* C4: a ListClients success leaves the clients state equal to exactly the
\* payload of that fetch, whatever an earlier fetch had left there.
C4_Replace ==
    [][\A i \in Calls :
          (calls[i].key = "clients" /\ Succeeds(i)) => clients' = calls'[i].data.list]_vars

C4_Witness ==
    \E i, j \in Calls :
        /\ calls[i].key = "clients" /\ calls[i].status = "success"
        /\ calls[j].key = "clients" /\ calls[j].status = "success"
        /\ calls[i].data.list # << >>
        /\ calls[j].data.list # calls[i].data.list
        /\ clients = calls[j].data.list

\* C5: a Login success with access_token t leaves the stored token equal to
\* t and isAuthenticated() true, and issues exactly one navigation, to
\* "/clients", with t already stored.
C5_Original ==
    [][\A i \in Calls :
          (calls[i].key = "login" /\ Succeeds(i))
          => /\ auth_token' = calls'[i].data.access_token
             /\ isAuthenticated'
             /\ calls'[i].nav =
                  << [to |-> "/clients", token |-> calls'[i].data.access_token] >>]_vars

\* C6: a Login call answered 401 {detail: d} ends in error with
\* error.detail = d, and the session is unauthenticated.
C6_Original ==
    [][\A i \in Calls :
          (calls[i].key = "login" /\ Fails(i) /\ calls'[i].raised.response.status = 401)
          => /\ calls'[i].error.detail = calls'[i].raised.response.data.detail
             /\ auth_token' = Null
             /\ ~isAuthenticated']_vars

C8_Original ==
    [][Len(calls') > Len(calls)
       => calls'[Len(calls')].Authorization =
            IF auth_token # Null THEN << "Bearer", auth_token >> ELSE << >>]_vars

\* C9: a failure that is not a 401 leaves the stored token and the clients
\* state as they were, issues no navigation, and reaches the error state of
\* its Mutation as the error the transport raised.
C9_PassThrough ==
    [][\A i \in Calls :
          (Fails(i) /\ calls'[i].raised.response.status # 401)
          => /\ auth_token' = auth_token
             /\ clients' = clients
             /\ guard' = guard
             /\ calls'[i].nav = << >>
             /\ calls'[i].error = calls'[i].raised
             /\ (cur[calls[i].key] = i =>
                   /\ Status(calls[i].key)' = "error"
                   /\ Error(calls[i].key)' = calls'[i].raised)]_vars

C9_Witness ==
    \E i \in Calls :
        /\ calls[i].status = "error"
        /\ calls[i].raised.response.status = 500
        /\ cur[calls[i].key] = i
        /\ isAuthenticated
        /\ shown

\* C10: a useMutation instance reaches a terminal state only from pending,
\* by the settling of the call it observes, with the state the outcome of
\* that call gives; a settled call never settles again.
C10_OneTerminal ==
    [][/\ \A k \in Keys :
             (Status(k)' \in Terminal /\ <<cur[k], Status(k)>> # <<cur'[k], Status(k)'>>)
             => /\ cur'[k] = cur[k]
                /\ Status(k) = "pending"
                /\ Status(k)' = "success" => Error(k)' = NoError
                /\ Status(k)' = "error" => Data(k)' = NoData /\ Error(k)' # NoError
       /\ \A i \in Calls : calls[i].status \in Terminal => calls'[i] = calls[i]]_vars

C10_Witness ==
    \E k1, k2 \in Keys : Status(k1) = "success" /\ Status(k2) = "error"

\* C11: a token is present in localStorage exactly when isAuthenticated()
\* is true, a login answered with an empty access_token included.
C11_Original == (auth_token # Null) <=> isAuthenticated

\* C12: total is the number of records in the clients state, activeCount
\* the number of them with is_active true, inactiveCount the number with
\* is_active false, the two add up to total, and a ListClients success with
\* an empty payload leaves all three at 0.
C12_Counts ==
    /\ [](/\ total = Cardinality(DOMAIN clients)
          /\ activeCount = Cardinality({n \in DOMAIN clients : clients[n].is_active = TRUE})
          /\ inactiveCount = Cardinality({n \in DOMAIN clients : clients[n].is_active = FALSE})
          /\ activeCount + inactiveCount = total)
    /\ [][\A i \in Calls :
             (calls[i].key = "clients" /\ Succeeds(i) /\ calls'[i].data.list = << >>)
             => total' = 0 /\ activeCount' = 0 /\ inactiveCount' = 0]_vars

C12_Witness ==
    /\ \E i \in Calls : calls[i].key = "clients" /\ calls[i].status = "success"
    /\ total = 2 /\ activeCount = 1 /\ inactiveCount = 1

C15_Original ==
    clients # << >>
    => \E i \in Calls :
          i > logoutAt /\ calls[i].key = "clients" /\ calls[i].status = "success"

\* C16: isAuthenticated() never throws and is false where there is no
\* storage, and no Mutation ends in error with an exception thrown by a
\* localStorage access.
C16_Original ==
    /\ ~isAuthenticatedCall.throws
    /\ storage = "absent" => ~isAuthenticated
    /\ \A i \in Calls : calls[i].error.name \in {Undefined, "AxiosError"}

C18_Original ==
    isAuthenticated
    => \E i \in Calls :
          i > logoutAt /\ calls[i].key = "login" /\ calls[i].status = "success"

\* C19: a 401 that answers a call dispatched without the token now stored
\* (before the login that stored it) leaves that token in place and issues
\* no navigation.
C19_Original ==
    [][\A i \in Calls :
          (/\ Fails(i) /\ calls'[i].raised.response.status = 401
           /\ isAuthenticated
           /\ calls[i].Authorization # << "Bearer", auth_token >>)
          => auth_token' = auth_token /\ calls'[i].nav = << >>]_vars

====
